---- MODULE Spec2Model ----
(***************************************************************************)
(* Model of the tutorial scripts of learn-iceberg-python as a state        *)
(* machine over the Iceberg tables they drive.                             *)
(*                                                                         *)
(* The scripts never implement the table format: they call the pyiceberg   *)
(* library (table.append, table.scan, table.snapshots,                     *)
(* table.current_snapshot).  The state of a table is therefore modelled as *)
(* what those calls expose to the scripts: the snapshot list and the       *)
(* current-snapshot pointer.  Each action below is one function of the     *)
(* scripts, translated from its code.                                      *)
(*                                                                         *)
(* The iceberg-minio-demo scripts that drive a MinIO server, the process   *)
(* environment or a metrics collector are modelled the same way, each in   *)
(* a section and a specification of its own: the server is what the S3     *)
(* calls of the script expose to it.                                       *)
(***************************************************************************)
EXTENDS Integers, Sequences, FiniteSets, TLC

(* ------------------------------ bounds -------------------------------- *)

\* Largest number of snapshots the web_logs table gets in a run.
MaxSnapshots == 3

\* Snapshot ids are drawn from 1..MaxId (pyiceberg draws them at random).
MaxId == 3

\* The wall clock runs over 0..MaxClock milliseconds.
MaxClock == 1

\* robust_catalog_operation is called with max_retries in 0..MaxRetries.
MaxRetries == 3

\* monitored_operation is used MaxUses times in a run.
MaxUses == 2

\* 03_schema_evolution.py is run MaxRuns times on a table.
MaxRuns == 2

\* demo/versioned-file.txt gets at most MaxVersions versions, with version
\* ids the server draws from 1..MaxVersions.
MaxVersions == 6

\* demonstrate_parallel_operations creates MaxKeys test objects (10 in the
\* source) and downloads them with a pool of MaxWorkers threads (5 in the
\* source): fewer workers than keys, as there.
MaxKeys == 3

MaxWorkers == 2

(* ------------------------- program constants -------------------------- *)

\* create_sample_data_for_backup: for i in range(3)
BackupBatches == 3

(* ------------------------------ values -------------------------------- *)

\* The programs a run can be of: the iceberg-etl-demo scripts, which share
\* the table web_logs.access_logs, and 07_backup_disaster_recovery_demo,
\* which creates backup_demo.transactions anew.
Scripts == {"etl_demo", "backup_demo", "sales_demo", "production_patterns"}

\* Python's None for a snapshot id.
NoSnapshot == 0

\* A function's result: None, or a data frame holding a set of row batches.
None == [is_none |-> TRUE, rows |-> {}]

Some(rows) == [is_none |-> FALSE, rows |-> rows]

\* The elements of a list.
Range(list) == {list[i] : i \in 1..Len(list)}

\* max(numbers), for a set that is not empty.
Max(numbers) == CHOOSE n \in numbers : \A m \in numbers : m <= n

VARIABLES
    script,          \* the program this run is of
    table,           \* its table: [snapshots, current_snapshot_id]
    clock,           \* wall clock, milliseconds
    snapshots_info,  \* the list create_sample_data_for_backup builds
    call,            \* the last function call: its name and its locals
    pc,              \* sales_amendment_demo: the next step of the script
    batch_data,      \* sales.orders: the records of each appended batch
    retry,           \* robust_catalog_operation: its frame
    metrics,         \* metrics_collector.metrics: metric name -> samples
    start_times,     \* metrics_collector.start_times: operation name -> time
    uses,            \* each use of monitored_operation: its frame
    schema,          \* web_logs.access_logs: the fields of table.schema()
    evolve,          \* evolve_schema_add_fields: its runs and its locals
    buckets,         \* the MinIO server: the names of its buckets
    cib,             \* create_iceberg_buckets: its frame
    conn,            \* 01_minio_connection.py, main: its frame
    environ,         \* os.environ
    dotenv,          \* the file .env
    setup,           \* setup_environment_variables: its frame
    bucket_versioning, \* iceberg-versioned-demo: absent, or its versioning
    object_versions, \* the versions of demo/versioned-file.txt, oldest first
    dbv,             \* demonstrate_bucket_versioning: its frame
    objects,         \* iceberg-warehouse: the size of each perf-test object
    futures,         \* the executor's futures, in the order of submission
    workers,         \* the executor's threads: the future each one runs
    pdo              \* demonstrate_parallel_operations: its frame

table_vars == <<script, table, clock, snapshots_info, call>>

sales_vars == <<pc, batch_data>>

retry_vars == <<retry>>

monitoring_vars == <<metrics, start_times, uses>>

schema_vars == <<schema, evolve>>

connection_vars == <<buckets, cib, conn>>

\* The state of the iceberg-minio-demo scripts other than the backup demo
\* and the retry strategy.
environment_vars == <<environ, dotenv, setup>>

versioning_vars == <<bucket_versioning, object_versions, dbv>>

parallel_vars == <<objects, futures, workers, pdo>>

minio_vars == <<monitoring_vars, connection_vars, environment_vars, versioning_vars, parallel_vars>>

\* What the functions of the etl and backup demos never touch.
other_vars == <<sales_vars, retry_vars, minio_vars, schema_vars>>

vars == <<table_vars, sales_vars, retry_vars, minio_vars, schema_vars>>

\* What the functions of one script never touch.
outside_schema == <<table_vars, sales_vars, retry_vars, minio_vars>>

etl_vars == <<table_vars, sales_vars, retry_vars, schema_vars>>

outside_monitoring == <<etl_vars, connection_vars, environment_vars, versioning_vars, parallel_vars>>

outside_connection == <<etl_vars, monitoring_vars, environment_vars, versioning_vars, parallel_vars>>

outside_environment == <<etl_vars, monitoring_vars, connection_vars, versioning_vars, parallel_vars>>

outside_versioning == <<etl_vars, monitoring_vars, connection_vars, environment_vars, parallel_vars>>

outside_parallel == <<etl_vars, monitoring_vars, connection_vars, environment_vars, versioning_vars>>

(* --------------------- the table as pyiceberg shows it ----------------- *)

EmptyTable == [snapshots |-> <<>>, current_snapshot_id |-> NoSnapshot]

SnapshotIds(t) == {t.snapshots[i].snapshot_id : i \in 1..Len(t.snapshots)}

snapshot_by_id(t, id) ==
    CHOOSE s \in {t.snapshots[i] : i \in 1..Len(t.snapshots)} : s.snapshot_id = id

\* table.current_snapshot(): the snapshot the pointer names, or None.
CurrentRows(t) ==
    IF t.current_snapshot_id = NoSnapshot
    THEN {}
    ELSE snapshot_by_id(t, t.current_snapshot_id).rows

\* table.scan(snapshot_id=id).to_arrow(): raises for an unknown id, which the
\* callers catch; table.scan() reads the current snapshot.
ScanSnapshot(t, id) ==
    IF id \in SnapshotIds(t) THEN Some(snapshot_by_id(t, id).rows) ELSE None

ScanCurrent(t) == Some(CurrentRows(t))

\* table.append(arrow_table): one new snapshot whose parent is the current
\* snapshot, holding the parent's rows and the appended batch; it becomes
\* the current snapshot.
TableAppend(t, id, now) ==
    [snapshots |-> Append(t.snapshots,
                          [snapshot_id  |-> id,
                           parent_id    |-> t.current_snapshot_id,
                           timestamp_ms |-> now,
                           rows         |-> CurrentRows(t) \cup {Len(t.snapshots) + 1}]),
     current_snapshot_id |-> id]

(* ------------- 04_production_patterns.py: the retry strategy ----------- *)

\* Error codes of a ClientError, by the branch robust_catalog_operation takes.
TransientCodes == {"ServiceUnavailable", "SlowDown"}

PermanentCodes == {"AccessDenied", "InvalidAccessKeyId"}

\* A code in neither list.
UnknownCodes == {"InternalError"}

\* What one call of operation_func() does: it returns, raises a ClientError
\* with one of the codes, or raises an exception of another type.
Outcomes == {"ok", "ValueError"} \cup TransientCodes \cup PermanentCodes \cup UnknownCodes

\* The frame of robust_catalog_operation: the loop variable, the calls of
\* operation_func made so far and what each did, and how the call ended.
\* random_imported: the example imports time and ClientError only, so
\* whether the name random is bound depends on the module it is pasted in.
IdleRetry ==
    [status |-> "idle", max_retries |-> 0, attempt |-> 0, calls |-> 0,
     outcomes |-> <<>>, exception |-> "None", random_imported |-> TRUE]

\* The for loop has run out of attempts: raise Exception("Operation failed
\* after {max_retries} attempts").
LoopEnd(r) ==
    IF r.status = "running" /\ r.attempt >= r.max_retries
    THEN [r EXCEPT !.status = "raised", !.exception = "Exception"]
    ELSE r

\* The loop body without its branch for permanent errors: AccessDenied and
\* InvalidAccessKeyId fall through to the branch for unknown codes.
LoopBody_no_permanent_branch(r, outcome) ==
    LET called == [r EXCEPT !.calls = @ + 1, !.outcomes = Append(@, outcome)]
        raised(e) == [called EXCEPT !.status = "raised", !.exception = e]
        continue == LoopEnd([called EXCEPT !.attempt = @ + 1])
    IN  IF outcome = "ok" THEN [called EXCEPT !.status = "returned"]
        ELSE IF outcome = "ValueError" THEN raised("ValueError")
        ELSE IF outcome \in TransientCodes
             THEN IF r.random_imported THEN continue ELSE raised("NameError")
        ELSE IF r.attempt < r.max_retries - 1 THEN continue
        ELSE raised("ClientError")

\* One pass of the loop body, operation_func() doing `outcome`.
LoopBody(r, outcome) ==
    LET called == [r EXCEPT !.calls = @ + 1, !.outcomes = Append(@, outcome)]
        raised(e) == [called EXCEPT !.status = "raised", !.exception = e]
        continue == LoopEnd([called EXCEPT !.attempt = @ + 1])
    IN  IF outcome = "ok" THEN [called EXCEPT !.status = "returned"]
        ELSE IF outcome = "ValueError" THEN raised("ValueError")
        ELSE IF outcome \in TransientCodes
             THEN IF r.random_imported THEN continue ELSE raised("NameError")
        ELSE IF outcome \in PermanentCodes THEN raised("ClientError")
        ELSE IF r.attempt < r.max_retries - 1 THEN continue
        ELSE raised("ClientError")

(* ------------------------------ locals -------------------------------- *)

NoLocals ==
    [op |-> "init",
     df |-> None, data1 |-> None, data2 |-> None,
     prev_data |-> None, curr_data |-> None,
     target_time |-> 0, current_state |-> {},
     target_snapshot |-> NoSnapshot, recovery_snapshot |-> NoSnapshot]

\* Time passes between two statements.
Tick ==
    /\ clock < MaxClock
    /\ clock' = clock + 1
    /\ UNCHANGED <<other_vars, script, table, snapshots_info, call>>

\* The wall clock is set back (time.time() is not monotonic): the next
\* snapshot is stamped earlier than the one before it.
ClockSetBack ==
    /\ clock > 0
    /\ clock' = clock - 1
    /\ UNCHANGED <<other_vars, script, table, snapshots_info, call>>

(* ------------------- 02_initial_load.py: the writer -------------------- *)

\* load_data_to_iceberg(table, arrow_table): table.append(arrow_table).
load_data_to_iceberg(id) ==
    /\ script = "etl_demo"
    /\ Len(table.snapshots) < MaxSnapshots
    /\ id \notin SnapshotIds(table)
    /\ table' = TableAppend(table, id, clock)
    /\ call' = [NoLocals EXCEPT !.op = "load_data_to_iceberg"]
    /\ UNCHANGED <<other_vars, script, clock, snapshots_info>>

(* -------------- 07_backup_disaster_recovery_demo.py: writer ------------ *)

\* One pass of the loop of create_sample_data_for_backup: table.append(df),
\* then the new current snapshot is recorded in snapshots_info.
create_sample_data_for_backup(id) ==
    /\ script = "backup_demo"
    /\ Len(snapshots_info) < BackupBatches
    /\ id \notin SnapshotIds(table)
    /\ LET t == TableAppend(table, id, clock)
           current_snapshot == snapshot_by_id(t, t.current_snapshot_id)
       IN /\ table' = t
          /\ snapshots_info' = Append(snapshots_info,
                 [snapshot_id |-> current_snapshot.snapshot_id,
                  timestamp   |-> current_snapshot.timestamp_ms])
    /\ call' = [NoLocals EXCEPT !.op = "create_sample_data_for_backup"]
    /\ UNCHANGED <<other_vars, script, clock>>

(* ----------------- 05_time_travel_queries.py: the readers -------------- *)

\* datetime.fromtimestamp(snapshot.timestamp_ms / 1000), in microseconds.
FromTimestamp(timestamp_ms) == timestamp_ms * 1000

\* query_snapshot_by_id(table, snapshot_id, description): the data frame of
\* that snapshot, or None when the scan raises.
query_snapshot_by_id(snapshot_id) ==
    /\ script = "etl_demo"
    /\ call' = [NoLocals EXCEPT !.op = "query_snapshot_by_id",
                                !.df = ScanSnapshot(table, snapshot_id)]
    /\ UNCHANGED <<other_vars, script, table, clock, snapshots_info>>

\* The loop of query_snapshot_by_timestamp over snapshots[i..]: the last
\* snapshot seen before the first one later than target_time.
RECURSIVE FindTargetSnapshot(_, _, _, _)
FindTargetSnapshot(snapshots, i, target_time, target_snapshot) ==
    IF i > Len(snapshots)
    THEN target_snapshot
    ELSE IF FromTimestamp(snapshots[i].timestamp_ms) <= target_time
         THEN FindTargetSnapshot(snapshots, i + 1, target_time, snapshots[i].snapshot_id)
         ELSE target_snapshot

\* query_snapshot_by_timestamp(table, target_time, description).
query_snapshot_by_timestamp(target_time) ==
    /\ script = "etl_demo"
    /\ LET t == table
           target_snapshot == FindTargetSnapshot(t.snapshots, 1, target_time, NoSnapshot)
       IN call' = [NoLocals EXCEPT
                     !.op = "query_snapshot_by_timestamp",
                     !.target_time = target_time,
                     !.target_snapshot = target_snapshot,
                     !.df = IF target_snapshot # NoSnapshot
                            THEN ScanSnapshot(t, target_snapshot)
                            ELSE None]
    /\ UNCHANGED <<other_vars, script, table, clock, snapshots_info>>

\* compare_snapshots(table, snapshot1_id, snapshot2_id): the second scan is
\* not reached when the first one raises.
compare_snapshots(snapshot1_id, snapshot2_id) ==
    /\ script = "etl_demo"
    /\ LET t == table
           data1 == ScanSnapshot(t, snapshot1_id)
       IN call' = [NoLocals EXCEPT
                     !.op = "compare_snapshots",
                     !.data1 = data1,
                     !.data2 = IF data1.is_none THEN None
                               ELSE ScanSnapshot(t, snapshot2_id)]
    /\ UNCHANGED <<other_vars, script, table, clock, snapshots_info>>

\* demonstrate_rollback_scenario as it would be if it carried the rollback
\* out: the current pointer is reset to the second-to-last snapshot.
demonstrate_rollback_scenario_resetting ==
    /\ script = "etl_demo"
    /\ LET t == table
           n == Len(t.snapshots)
       IN /\ call' = IF n < 2
                     THEN [NoLocals EXCEPT !.op = "demonstrate_rollback_scenario"]
                     ELSE [NoLocals EXCEPT
                             !.op = "demonstrate_rollback_scenario",
                             !.prev_data = ScanSnapshot(t, t.snapshots[n - 1].snapshot_id),
                             !.curr_data = ScanCurrent(t)]
          /\ table' = IF n < 2 THEN table
                      ELSE [table EXCEPT
                              !.current_snapshot_id = t.snapshots[n - 1].snapshot_id]
    /\ UNCHANGED <<other_vars, script, clock, snapshots_info>>

\* demonstrate_rollback_scenario(table, catalog): with fewer than two
\* snapshots it returns at once; otherwise it scans the second-to-last
\* snapshot and the current one.
demonstrate_rollback_scenario ==
    /\ script = "etl_demo"
    /\ LET t == table
           n == Len(t.snapshots)
       IN call' = IF n < 2
                  THEN [NoLocals EXCEPT !.op = "demonstrate_rollback_scenario"]
                  ELSE [NoLocals EXCEPT
                          !.op = "demonstrate_rollback_scenario",
                          !.prev_data = ScanSnapshot(t, t.snapshots[n - 1].snapshot_id),
                          !.curr_data = ScanCurrent(t)]
    /\ UNCHANGED <<other_vars, script, table, clock, snapshots_info>>

(* -------------- 07_backup_disaster_recovery_demo.py: reader ------------ *)

\* demonstrate_point_in_time_recovery(table, snapshots): counts the current
\* rows and picks snapshots[-2] as the recovery point; nothing is restored.
demonstrate_point_in_time_recovery ==
    /\ script = "backup_demo"
    /\ LET t == table
           n == Len(snapshots_info)
       IN call' = IF n = 0
                  THEN [NoLocals EXCEPT !.op = "demonstrate_point_in_time_recovery"]
                  ELSE [NoLocals EXCEPT
                          !.op = "demonstrate_point_in_time_recovery",
                          !.curr_data = ScanCurrent(t),
                          !.recovery_snapshot =
                              IF n >= 2 THEN snapshots_info[n - 1].snapshot_id
                              ELSE NoSnapshot]
    /\ UNCHANGED <<other_vars, script, table, clock, snapshots_info>>

(* ------------------------ sales_amendment_demo.py ---------------------- *)

\* The columns of sales.orders (create_sales_table_example).
Order(id, customer, amount, date, version, created, current, reason) ==
    [order_id |-> id, customer_id |-> customer, amount |-> amount,
     order_date |-> date, status |-> "completed",
     record_version |-> version, created_at |-> created,
     is_current |-> current, change_reason |-> reason]

\* load_initial_sales_data: initial_orders.
initial_orders ==
    << Order("ORD-001", "CUST-123", 10000, "2024-01-15 10:30", 1, "2024-01-15 10:30",
             TRUE, "None"),
       Order("ORD-002", "CUST-456", 25000, "2024-01-16 14:15", 1, "2024-01-16 14:15",
             TRUE, "None"),
       Order("ORD-003", "CUST-789", 5000, "2024-01-17 09:45", 1, "2024-01-17 09:45",
             TRUE, "None") >>

\* process_sales_amendment: amendment_records.
amendment_records ==
    << Order("ORD-001", "CUST-123", 10000, "2024-01-15 10:30", 1, "2024-01-15 10:30",
             FALSE, "Superseded by amendment"),
       Order("ORD-001", "CUST-123", 12000, "2024-01-15 10:30", 2, "2024-01-20 16:45",
             TRUE, "Amount correction - discount applied") >>

\* The rows of a scan of sales.orders: one per record of each batch the
\* scanned snapshot holds, named by batch and position.
SalesRows(batches) ==
    UNION {{<<b, i>> : i \in 1..Len(batch_data[b])} : b \in batches}

Record(r) == batch_data[r[1]][r[2]]

\* create_sales_table_example(): creates sales.orders, or loads it when a
\* run before this one created it.
create_sales_table_example ==
    /\ script = "sales_demo"
    /\ pc \in {"idle", "done"}
    /\ pc' = "load"
    /\ call' = [NoLocals EXCEPT !.op = "create_sales_table_example"]
    /\ UNCHANGED <<retry_vars, minio_vars, schema_vars, script, table, clock, snapshots_info, batch_data>>

\* load_initial_sales_data(table): table.append(initial_orders).
load_initial_sales_data(id) ==
    /\ script = "sales_demo"
    /\ pc = "load"
    /\ Len(table.snapshots) < MaxSnapshots
    /\ id \notin SnapshotIds(table)
    /\ table' = TableAppend(table, id, clock)
    /\ batch_data' = Append(batch_data, initial_orders)
    /\ pc' = "amend"
    /\ call' = [NoLocals EXCEPT !.op = "load_initial_sales_data"]
    /\ UNCHANGED <<retry_vars, minio_vars, schema_vars, script, clock, snapshots_info>>

\* process_sales_amendment(table): table.append(amendment_records).
process_sales_amendment(id) ==
    /\ script = "sales_demo"
    /\ pc = "amend"
    /\ Len(table.snapshots) < MaxSnapshots
    /\ id \notin SnapshotIds(table)
    /\ table' = TableAppend(table, id, clock)
    /\ batch_data' = Append(batch_data, amendment_records)
    /\ pc' = "query"
    /\ call' = [NoLocals EXCEPT !.op = "process_sales_amendment"]
    /\ UNCHANGED <<retry_vars, minio_vars, schema_vars, script, clock, snapshots_info>>

\* query_sales_with_amendments(table), the query "Current state (business
\* view)": SELECT ... FROM sales WHERE is_current = true.
query_sales_with_amendments ==
    /\ script = "sales_demo"
    /\ pc = "query"
    /\ pc' = "done"
    /\ call' = [NoLocals EXCEPT
                  !.op = "query_sales_with_amendments",
                  !.current_state =
                      {r \in SalesRows(CurrentRows(table)) : Record(r).is_current}]
    /\ UNCHANGED <<retry_vars, minio_vars, schema_vars, script, table, clock, snapshots_info, batch_data>>

(* ------------- 04_production_patterns.py: the retry strategy ----------- *)

\* robust_catalog_operation(operation_func, max_retries) is called.
robust_catalog_operation(max_retries, random_imported) ==
    /\ script = "production_patterns"
    /\ retry.status # "running"
    /\ retry' = LoopEnd([IdleRetry EXCEPT !.status = "running",
                                          !.max_retries = max_retries,
                                          !.random_imported = random_imported])
    /\ UNCHANGED <<table_vars, sales_vars, minio_vars, schema_vars>>

\* The loop of robust_catalog_operation runs its next pass.
robust_catalog_operation_attempt(outcome) ==
    /\ script = "production_patterns"
    /\ retry.status = "running"
    /\ retry' = LoopBody(retry, outcome)
    /\ UNCHANGED <<table_vars, sales_vars, minio_vars, schema_vars>>

(* ----------------------- 03_schema_evolution.py ------------------------ *)

NestedField(field_id, name, field_type) ==
    [field_id |-> field_id, name |-> name, field_type |-> field_type]

\* The schema 01_create_table.py creates web_logs.access_logs with.
BaseSchema ==
    << NestedField(1, "timestamp", "timestamp"),
       NestedField(2, "ip_address", "string"),
       NestedField(3, "method", "string"),
       NestedField(4, "url", "string"),
       NestedField(5, "status_code", "int"),
       NestedField(6, "response_size", "long"),
       NestedField(7, "user_agent", "string") >>

\* evolve_schema_add_fields: fields_to_add, as name and type.
fields_to_add ==
    << <<"user_country", "string">>, <<"browser", "string">>, <<"is_mobile", "boolean">> >>

FieldNames(fields) == {fields[i].name : i \in 1..Len(fields)}

\* The columns a table may have got, before the script runs, under the
\* names the script adds: some of the names, in any order, of any type.
PriorColumns ==
    {p \in UNION {[1..n -> {f[1] : f \in Range(fields_to_add)} \X {"string", "boolean"}] :
                     n \in 0..Len(fields_to_add)} :
        \A i, j \in 1..Len(p) : p[i][1] = p[j][1] => i = j}

\* table.update_schema(): the pending update of a schema.
UpdateSchema(fields) == [fields |-> fields, exception |-> "None"]

\* update.add_column(name, field_type): a new optional field with the next
\* free id, or ValueError when the schema has a field of that name.
add_column(update, name, field_type) ==
    IF update.exception # "None" THEN update
    ELSE IF name \in FieldNames(update.fields)
    THEN [update EXCEPT !.exception = "ValueError"]
    ELSE [update EXCEPT !.fields =
             Append(@, NestedField(Max({@[i].field_id : i \in 1..Len(@)}) + 1,
                                   name, field_type))]

IdleEvolve == [runs |-> 0, fields_added |-> <<>>, exception |-> "None"]

\* The loop of evolve_schema_add_fields over fields_to_add[i..], adding
\* every field whether or not the schema has it.
RECURSIVE AddFields_unchecked(_, _, _)
AddFields_unchecked(i, existing_fields, acc) ==
    IF i > Len(fields_to_add) \/ acc.update.exception # "None"
    THEN acc
    ELSE AddFields_unchecked(i + 1, existing_fields,
             [update |-> add_column(acc.update, fields_to_add[i][1], fields_to_add[i][2]),
              fields_added |-> Append(acc.fields_added, fields_to_add[i][1])])

\* The loop of evolve_schema_add_fields over fields_to_add[i..]: a field is
\* added when its name is not in existing_fields.
RECURSIVE AddFields(_, _, _)
AddFields(i, existing_fields, acc) ==
    IF i > Len(fields_to_add) \/ acc.update.exception # "None"
    THEN acc
    ELSE IF fields_to_add[i][1] \notin existing_fields
    THEN AddFields(i + 1, existing_fields,
             [update |-> add_column(acc.update, fields_to_add[i][1], fields_to_add[i][2]),
              fields_added |-> Append(acc.fields_added, fields_to_add[i][1])])
    ELSE AddFields(i + 1, existing_fields, acc)

\* evolve_schema_add_fields(table): the update is committed when the with
\* block ends without an exception.
evolve_schema_add_fields ==
    /\ script = "schema_evolution"
    /\ evolve.runs < MaxRuns
    /\ LET current_schema == schema
           existing_fields == FieldNames(current_schema)
           done == AddFields(1, existing_fields,
                             [update |-> UpdateSchema(current_schema),
                              fields_added |-> <<>>])
       IN /\ schema' = IF done.update.exception = "None"
                       THEN done.update.fields ELSE schema
          /\ evolve' = [runs |-> evolve.runs + 1,
                        fields_added |-> done.fields_added,
                        exception |-> done.update.exception]
    /\ UNCHANGED outside_schema

\* The table as 01_create_table.py made it, evolve_schema_add_fields not run.
SchemaIdle ==
    /\ schema = BaseSchema
    /\ evolve = IdleEvolve

(* ----------------------- 01_minio_connection.py ------------------------ *)

\* create_iceberg_buckets: required_buckets.
required_buckets == <<"iceberg-warehouse", "iceberg-catalog">>

\* What a call of the S3 client does: it returns ("ok"), or raises a
\* ClientError with a code, or raises an exception that is no ClientError,
\* as botocore does when the endpoint cannot be reached.
ClientErrorCodes == {"404", "403", "AccessDenied"}

HeadOutcomes == {"ok", "404", "403", "EndpointConnectionError"}

CreateOutcomes == {"ok", "AccessDenied", "EndpointConnectionError"}

\* The server's answers: head_bucket returns for a bucket it has and says
\* 404 for one it has not; create_bucket returns for a bucket it has not.
HeadPossible(bs, bucket_name, outcome) ==
    /\ outcome = "ok" => bucket_name \in bs
    /\ outcome = "404" => bucket_name \notin bs

CreatePossible(bs, bucket_name, outcome) ==
    outcome = "ok" => bucket_name \notin bs

\* The frame of create_iceberg_buckets: the place in required_buckets, the
\* two lists, the calls of the client made so far (head_bucket with what it
\* did, create_bucket with whether the server had the bucket), how the call
\* ended, and whether the call before this one returned True.
IdleCib ==
    [status |-> "idle", result |-> FALSE, i |-> 1,
     created_buckets |-> <<>>, existing_buckets |-> <<>>,
     head_calls |-> <<>>, create_calls |-> <<>>,
     exception |-> "None", after_success |-> FALSE]

\* The end of a pass of the loop: the next bucket, or return True.
CibNext(c) ==
    IF c.i + 1 > Len(required_buckets)
    THEN [c EXCEPT !.status = "returned", !.result = TRUE]
    ELSE [c EXCEPT !.i = @ + 1]

\* create_bucket(Bucket=bucket_name) in a pass of the loop.
CibCreate(c, bs, create) ==
    LET bucket_name == required_buckets[c.i]
        called == [c EXCEPT !.create_calls =
                      Append(@, [bucket |-> bucket_name, outcome |-> create,
                                 existed |-> bucket_name \in bs])]
    IN  IF create = "ok"
        THEN [cib |-> CibNext([called EXCEPT !.created_buckets = Append(@, bucket_name)]),
              buckets |-> bs \cup {bucket_name}]
        ELSE IF create \in ClientErrorCodes
        THEN [cib |-> [called EXCEPT !.status = "returned", !.result = FALSE],
              buckets |-> bs]
        ELSE [cib |-> [called EXCEPT !.status = "raised", !.exception = create],
              buckets |-> bs]

\* One pass of the loop of create_iceberg_buckets, head_bucket doing `head`
\* and create_bucket, when it is called, doing `create`.
CibPass(c, bs, head, create) ==
    LET bucket_name == required_buckets[c.i]
        called == [c EXCEPT !.head_calls =
                      Append(@, [bucket |-> bucket_name, outcome |-> head])]
    IN  IF head = "ok"
        THEN [cib |-> CibNext([called EXCEPT !.existing_buckets = Append(@, bucket_name)]),
              buckets |-> bs]
        ELSE IF head \in ClientErrorCodes
        THEN IF head = "404"
             THEN CibCreate(called, bs, create)
             ELSE [cib |-> [called EXCEPT !.status = "returned", !.result = FALSE],
                   buckets |-> bs]
        ELSE [cib |-> [called EXCEPT !.status = "raised", !.exception = head],
              buckets |-> bs]

\* main: total_tests = 4
total_tests == 4

\* The frame of main: the step it is at, tests_passed, the tests it has run
\* with what each returned, and what main returned.
IdleConn ==
    [pc |-> "idle", tests_passed |-> 0, ran |-> <<>>, result |-> "None"]

Ran(test) == {i \in 1..Len(conn.ran) : conn.ran[i].test = test}

Test(test, returned) == [test |-> test, returned |-> returned]

\* main up to its second step: get_minio_client() returns a client, or
\* raises and main returns False.
main(client_ok) ==
    /\ script = "minio_connection"
    /\ conn.pc \in {"idle", "done"}
    /\ conn' = IF client_ok
               THEN [IdleConn EXCEPT !.pc = "connectivity"]
               ELSE [IdleConn EXCEPT !.pc = "done", !.result = "False"]
    /\ UNCHANGED <<outside_connection, buckets, cib>>

\* main: if test_basic_connectivity(s3_client); it lists the buckets and
\* returns True, or catches what list_buckets raises and returns False.
test_basic_connectivity(ok) ==
    /\ script = "minio_connection"
    /\ conn.pc = "connectivity"
    /\ conn' = IF ok
               THEN [conn EXCEPT !.pc = "create",
                                 !.tests_passed = @ + 1,
                                 !.ran = Append(@, Test("test_basic_connectivity", "True"))]
               ELSE [conn EXCEPT !.pc = "done",
                                 !.ran = Append(@, Test("test_basic_connectivity", "False")),
                                 !.result = "False"]
    /\ UNCHANGED <<outside_connection, buckets, cib>>

\* main calls create_iceberg_buckets(s3_client): its lists are empty.
create_iceberg_buckets ==
    /\ script = "minio_connection"
    /\ conn.pc = "create"
    /\ cib' = [IdleCib EXCEPT !.status = "running",
                              !.after_success = (cib.status = "returned" /\ cib.result)]
    /\ conn' = [conn EXCEPT !.pc = "in_create"]
    /\ UNCHANGED <<outside_connection, buckets>>

\* create_iceberg_buckets runs one pass of its loop; when the pass ends the
\* call, main goes on: tests_passed += 1 if it returned True, and main is
\* left when it raised.
create_iceberg_buckets_pass(head, create) ==
    /\ script = "minio_connection"
    /\ conn.pc = "in_create"
    /\ cib.status = "running"
    /\ HeadPossible(buckets, required_buckets[cib.i], head)
    /\ CreatePossible(buckets, required_buckets[cib.i], create)
    /\ LET pass == CibPass(cib, buckets, head, create)
       IN /\ cib' = pass.cib
          /\ buckets' = pass.buckets
          /\ conn' =
               IF pass.cib.status = "running" THEN conn
               ELSE IF pass.cib.status = "raised"
               THEN [conn EXCEPT !.pc = "done",
                                 !.ran = Append(@, Test("create_iceberg_buckets", "raised")),
                                 !.result = "raised"]
               ELSE [conn EXCEPT
                       !.pc = "rw",
                       !.tests_passed = IF pass.cib.result THEN @ + 1 ELSE @,
                       !.ran = Append(@, Test("create_iceberg_buckets",
                                              IF pass.cib.result THEN "True" ELSE "False"))]
    /\ UNCHANGED outside_connection

\* main: if test_read_write_permissions(s3_client), which writes, reads,
\* lists and deletes a file in iceberg-warehouse and returns False on any
\* exception; then display_minio_info, tests_passed += 1, and the result.
test_read_write_permissions(ok) ==
    /\ script = "minio_connection"
    /\ conn.pc = "rw"
    /\ ok => "iceberg-warehouse" \in buckets
    /\ LET tests_passed == conn.tests_passed + (IF ok THEN 1 ELSE 0) + 1
       IN conn' = [conn EXCEPT
                     !.pc = "done",
                     !.tests_passed = tests_passed,
                     !.ran = Append(@, Test("test_read_write_permissions",
                                            IF ok THEN "True" ELSE "False")),
                     !.result = IF tests_passed = total_tests THEN "True" ELSE "False"]
    /\ UNCHANGED <<outside_connection, buckets, cib>>

\* No bucket yet, and main not run.
ConnectionIdle ==
    /\ buckets = {}
    /\ cib = IdleCib
    /\ conn = IdleConn

ConnectionNext ==
    \/ \E client_ok \in BOOLEAN : main(client_ok)
    \/ \E ok \in BOOLEAN : test_basic_connectivity(ok)
    \/ create_iceberg_buckets
    \/ \E head \in HeadOutcomes, create \in CreateOutcomes :
          create_iceberg_buckets_pass(head, create)
    \/ \E ok \in BOOLEAN : test_read_write_permissions(ok)

(* ------------------------- 02_catalog_setup.py ------------------------- *)

\* setup_environment_variables: required_vars.
required_vars ==
    << "MINIO_ENDPOINT", "MINIO_ACCESS_KEY", "MINIO_SECRET_KEY",
       "PYICEBERG_CATALOG__MINIO_LOCAL__S3__ENDPOINT",
       "PYICEBERG_CATALOG__MINIO_LOCAL__S3__ACCESS_KEY_ID",
       "PYICEBERG_CATALOG__MINIO_LOCAL__S3__SECRET_ACCESS_KEY" >>

\* setup_environment_variables: fallback_values, in the order of the dict.
fallback_values ==
    << <<"MINIO_ENDPOINT", "http://localhost:9000">>,
       <<"MINIO_ACCESS_KEY", "minioadmin">>,
       <<"MINIO_SECRET_KEY", "minioadmin">>,
       <<"MINIO_REGION", "us-east-1">>,
       <<"PYICEBERG_CATALOG__MINIO_LOCAL__TYPE", "sql">>,
       <<"PYICEBERG_CATALOG__MINIO_LOCAL__URI", "sqlite:///catalog.db">>,
       <<"PYICEBERG_CATALOG__MINIO_LOCAL__WAREHOUSE", "s3://iceberg-warehouse/">>,
       <<"PYICEBERG_CATALOG__MINIO_LOCAL__S3__ENDPOINT", "http://localhost:9000">>,
       <<"PYICEBERG_CATALOG__MINIO_LOCAL__S3__ACCESS_KEY_ID", "minioadmin">>,
       <<"PYICEBERG_CATALOG__MINIO_LOCAL__S3__SECRET_ACCESS_KEY", "minioadmin">>,
       <<"PYICEBERG_CATALOG__MINIO_LOCAL__S3__REGION", "us-east-1">>,
       <<"PYICEBERG_CATALOG__MINIO_LOCAL__S3__PATH_STYLE_ACCESS", "true">> >>

\* The variables the function reads or writes.
EnvKeys == {"PYICEBERG_HOME"} \cup {f[1] : f \in Range(fallback_values)}

\* key not in os.environ
Unset == "(unset)"

\* The .env files of a run: none, an empty one, one with the MinIO
\* settings, one with the required variables, one with every variable.
NoFile == [exists |-> FALSE, keys |-> {}]

DotenvFiles ==
    {NoFile} \cup
    {[exists |-> TRUE, keys |-> keys] :
        keys \in {{}, {"MINIO_ENDPOINT", "MINIO_ACCESS_KEY", "MINIO_SECRET_KEY", "MINIO_REGION"},
                  Range(required_vars), EnvKeys}}

\* load_dotenv(env_file): a variable of the file is set when the
\* environment does not have it (override is False).
load_dotenv(env, env_file) ==
    [k \in EnvKeys |->
        IF k \in env_file.keys /\ env[k] = Unset THEN "dotenv" ELSE env[k]]

\* The loop over fallback_values[i..] assigning every value, whether or
\* not the key is in os.environ.
RECURSIVE SetFallbacks_overwriting(_, _)
SetFallbacks_overwriting(i, env) ==
    IF i > Len(fallback_values) THEN env
    ELSE SetFallbacks_overwriting(i + 1,
             [env EXCEPT ![fallback_values[i][1]] = fallback_values[i][2]])

\* The loop over fallback_values[i..]: a value is assigned when its key is
\* not in os.environ.
RECURSIVE SetFallbacks(_, _)
SetFallbacks(i, env) ==
    IF i > Len(fallback_values) THEN env
    ELSE IF env[fallback_values[i][1]] = Unset
    THEN SetFallbacks(i + 1, [env EXCEPT ![fallback_values[i][1]] = fallback_values[i][2]])
    ELSE SetFallbacks(i + 1, env)

IdleSetup == [status |-> "idle", missing_vars |-> <<>>]

\* setup_environment_variables().
setup_environment_variables ==
    /\ script = "catalog_setup"
    /\ LET loaded == IF dotenv.exists THEN load_dotenv(environ, dotenv) ELSE environ
           with_home == IF loaded["PYICEBERG_HOME"] = Unset
                        THEN [loaded EXCEPT !["PYICEBERG_HOME"] = "os.getcwd()"]
                        ELSE loaded
           missing_vars == SelectSeq(required_vars, LAMBDA var : with_home[var] = Unset)
       IN /\ environ' = IF missing_vars # <<>> THEN SetFallbacks(1, with_home) ELSE with_home
          /\ setup' = [status |-> "returned", missing_vars |-> missing_vars]
    /\ UNCHANGED <<outside_environment, dotenv>>

\* No variable set, no .env file, the function not called.
EnvironmentIdle ==
    /\ environ = [k \in EnvKeys |-> Unset]
    /\ dotenv = NoFile
    /\ setup = IdleSetup

(* ---------------------- 05_bucket_lifecycle_demo.py --------------------- *)

\* for version_num in range(1, 4)
Uploads == 3

\* content = f"This is version {version_num} of the file. ..."
Content(version_num) == <<"This is version", version_num>>

corrupt_content == <<"CORRUPTED DATA - This file has been damaged!", 0>>

\* The version of a key in a bucket without versioning.
NullVersion == 0

\* put_object on the server: with versioning enabled a new version with
\* the id the server gives it; otherwise the one version there is, replaced.
PutObject(versions, status, version_id, content) ==
    IF status = "Enabled"
    THEN Append(versions, [version_id |-> version_id, content |-> content])
    ELSE <<[version_id |-> NullVersion, content |-> content]>>

\* get_object on the server: the latest version, or the version asked for.
GetObject(versions) == versions[Len(versions)].content

GetObjectVersion(versions, version_id) ==
    (CHOOSE v \in Range(versions) : v.version_id = version_id).content

VersionIds(versions) == {v.version_id : v \in Range(versions)}

\* The frame of demonstrate_bucket_versioning: the step it is at, its
\* locals, the calls of put_object that have returned, and what it returned.
IdleDbv ==
    [pc |-> "idle", versions |-> <<>>, current_content |-> <<"None", 0>>,
     good_version_id |-> NullVersion, good_content |-> <<"None", 0>>,
     puts |-> 0, result |-> "None"]

\* except Exception: return None
DbvFailed(d) == [d EXCEPT !.pc = "done", !.result = "None"]

\* demonstrate_bucket_versioning(): create_bucket, a bucket that is there
\* being kept as it is.
demonstrate_bucket_versioning(ok) ==
    /\ script = "bucket_lifecycle"
    /\ dbv.pc \in {"idle", "done"}
    /\ IF ok
       THEN /\ bucket_versioning' =
                  IF bucket_versioning = "NoBucket" THEN "Unversioned" ELSE bucket_versioning
            /\ dbv' = [IdleDbv EXCEPT !.pc = "versioning"]
       ELSE /\ bucket_versioning' = bucket_versioning
            /\ dbv' = DbvFailed(IdleDbv)
    /\ UNCHANGED <<outside_versioning, object_versions>>

\* put_bucket_versioning(Status Enabled), get_bucket_versioning.
demonstrate_bucket_versioning_enable(ok) ==
    /\ script = "bucket_lifecycle"
    /\ dbv.pc = "versioning"
    /\ IF ok
       THEN /\ bucket_versioning' = "Enabled"
            /\ dbv' = [dbv EXCEPT !.pc = "upload"]
       ELSE /\ bucket_versioning' = bucket_versioning
            /\ dbv' = DbvFailed(dbv)
    /\ UNCHANGED <<outside_versioning, object_versions>>

\* One pass of the loop of uploads: put_object, and the version id of the
\* response is appended to versions.
demonstrate_bucket_versioning_upload(version_id, ok) ==
    /\ script = "bucket_lifecycle"
    /\ dbv.pc = "upload"
    /\ Len(object_versions) < MaxVersions
    /\ version_id \notin VersionIds(object_versions)
    /\ LET version_num == Len(dbv.versions) + 1
       IN IF ok
          THEN /\ object_versions' = PutObject(object_versions, bucket_versioning,
                                               version_id, Content(version_num))
               /\ dbv' = [dbv EXCEPT
                            !.versions = Append(@, <<version_num,
                                                     object_versions'[Len(object_versions')].version_id,
                                                     Content(version_num)>>),
                            !.puts = @ + 1,
                            !.pc = IF version_num = Uploads THEN "corrupt" ELSE "upload"]
          ELSE /\ object_versions' = object_versions
               /\ dbv' = DbvFailed(dbv)
    /\ UNCHANGED <<outside_versioning, bucket_versioning>>

\* list_object_versions and the table of versions; then the corrupting
\* put_object, and get_object reads the current content.
demonstrate_bucket_versioning_corrupt(version_id, ok) ==
    /\ script = "bucket_lifecycle"
    /\ dbv.pc = "corrupt"
    /\ Len(object_versions) < MaxVersions
    /\ version_id \notin VersionIds(object_versions)
    /\ IF ok
       THEN /\ object_versions' = PutObject(object_versions, bucket_versioning,
                                            version_id, corrupt_content)
            /\ dbv' = [dbv EXCEPT !.current_content = GetObject(object_versions'),
                                  !.puts = @ + 1,
                                  !.pc = "recover"]
       ELSE /\ object_versions' = object_versions
            /\ dbv' = DbvFailed(dbv)
    /\ UNCHANGED <<outside_versioning, bucket_versioning>>

\* The recovery that takes the last version of the list, versions[-1].
demonstrate_bucket_versioning_recover_last(version_id, ok) ==
    /\ script = "bucket_lifecycle"
    /\ dbv.pc = "recover"
    /\ Len(object_versions) < MaxVersions
    /\ version_id \notin VersionIds(object_versions)
    /\ IF ok /\ dbv.versions[Len(dbv.versions)][2] \in VersionIds(object_versions)
       THEN LET good_version_id == dbv.versions[Len(dbv.versions)][2]
                good_content == GetObjectVersion(object_versions, good_version_id)
            IN /\ object_versions' = PutObject(object_versions, bucket_versioning,
                                               version_id, good_content)
               /\ dbv' = [dbv EXCEPT !.good_version_id = good_version_id,
                                     !.good_content = good_content,
                                     !.puts = @ + 1,
                                     !.pc = "done",
                                     !.result = "iceberg-versioned-demo"]
       ELSE /\ object_versions' = object_versions
            /\ dbv' = DbvFailed(dbv)
    /\ UNCHANGED <<outside_versioning, bucket_versioning>>

\* The recovery: good_version_id = versions[-2][1], get_object of that
\* version, put_object of its content; the function returns the bucket.
\* get_object raises when the server has no version of that id.
demonstrate_bucket_versioning_recover(version_id, ok) ==
    /\ script = "bucket_lifecycle"
    /\ dbv.pc = "recover"
    /\ Len(object_versions) < MaxVersions
    /\ version_id \notin VersionIds(object_versions)
    /\ IF ok /\ dbv.versions[Len(dbv.versions) - 1][2] \in VersionIds(object_versions)
       THEN LET good_version_id == dbv.versions[Len(dbv.versions) - 1][2]
                good_content == GetObjectVersion(object_versions, good_version_id)
            IN /\ object_versions' = PutObject(object_versions, bucket_versioning,
                                               version_id, good_content)
               /\ dbv' = [dbv EXCEPT !.good_version_id = good_version_id,
                                     !.good_content = good_content,
                                     !.puts = @ + 1,
                                     !.pc = "done",
                                     !.result = "iceberg-versioned-demo"]
       ELSE /\ object_versions' = object_versions
            /\ dbv' = DbvFailed(dbv)
    /\ UNCHANGED <<outside_versioning, bucket_versioning>>

\* No bucket iceberg-versioned-demo, the function not called.
VersioningIdle ==
    /\ bucket_versioning = "NoBucket"
    /\ object_versions = <<>>
    /\ dbv = IdleDbv

VersioningNext ==
    \/ \E ok \in BOOLEAN : demonstrate_bucket_versioning(ok)
    \/ \E ok \in BOOLEAN : demonstrate_bucket_versioning_enable(ok)
    \/ \E version_id \in 1..MaxVersions, ok \in BOOLEAN :
          demonstrate_bucket_versioning_upload(version_id, ok)
    \/ \E version_id \in 1..MaxVersions, ok \in BOOLEAN :
          demonstrate_bucket_versioning_corrupt(version_id, ok)
    \/ \E version_id \in 1..MaxVersions, ok \in BOOLEAN :
          demonstrate_bucket_versioning_recover(version_id, ok)

(* ------------------ 08_performance_optimization_demo.py ---------------- *)

\* for i in range(10): the object perf-test/parallel-test-{i:03d}.txt, by i.
Keys == 0..(MaxKeys - 1)

\* test_data = "x" * 1024, by its length: what len(data) is for a
\* downloaded test object.
test_data == 1024

\* No object under a key.
NoObject == -1

\* A bucket with no test object.
NoObjects == [key \in Keys |-> NoObject]

\* A future of the executor: the key its call of download_object was given,
\* its state, its result once finished, and whether get_object raised in it.
Future(key) == [key |-> key, state |-> "pending", result |-> 0, raised |-> FALSE]

\* The executor's work queue: the futures no thread has taken, first in
\* first out.
Pending == {n \in 1..Len(futures) : futures[n].state = "pending"}

NoWorker == [w \in 1..MaxWorkers |-> 0]

IdlePdo ==
    [pc |-> "idle", i |-> 0, test_keys |-> <<>>, sequential_sizes |-> <<>>,
     sequential_failed |-> {}, parallel_sizes |-> <<>>, delete_failed |-> {}]

\* demonstrate_parallel_operations is called.
demonstrate_parallel_operations ==
    /\ script = "performance_optimization"
    /\ pdo.pc = "idle"
    /\ pdo' = [pdo EXCEPT !.pc = "create", !.i = 0]
    /\ UNCHANGED <<outside_parallel, objects, futures, workers>>

\* One turn of the loop that creates the test objects: put_object stores
\* the object and its key is added to test_keys, or it raises and the key is
\* left out.  After the last turn the function returns if no object was
\* created.
demonstrate_parallel_operations_create(ok) ==
    /\ script = "performance_optimization"
    /\ pdo.pc = "create"
    /\ LET key == pdo.i
           test_keys == IF ok THEN Append(pdo.test_keys, key) ELSE pdo.test_keys
       IN /\ objects' = IF ok THEN [objects EXCEPT ![key] = test_data] ELSE objects
          /\ pdo' = IF pdo.i + 1 < MaxKeys
                       THEN [pdo EXCEPT !.test_keys = test_keys, !.i = @ + 1]
                    ELSE IF test_keys = <<>>
                       THEN [pdo EXCEPT !.test_keys = test_keys, !.pc = "done"]
                    ELSE [pdo EXCEPT !.test_keys = test_keys, !.pc = "sequential", !.i = 1]
    /\ UNCHANGED <<outside_parallel, futures, workers>>

\* One turn of the sequential download: the size of the object is appended,
\* or get_object raises and nothing is appended for the key.
demonstrate_parallel_operations_sequential(ok) ==
    /\ script = "performance_optimization"
    /\ pdo.pc = "sequential"
    /\ LET key == pdo.test_keys[pdo.i]
           last == pdo.i = Len(pdo.test_keys)
       IN /\ ok => objects[key] # NoObject
          /\ pdo' = [pdo EXCEPT
                        !.sequential_sizes = IF ok THEN Append(@, objects[key]) ELSE @,
                        !.sequential_failed = IF ok THEN @ ELSE @ \cup {key},
                        !.i = IF last THEN 0 ELSE @ + 1,
                        !.pc = IF last THEN "submit" ELSE @]
    /\ UNCHANGED <<outside_parallel, objects, futures, workers>>

\* executor.map(download_object, test_keys): one future for each key is
\* submitted, in the order of test_keys, before any result is taken.
demonstrate_parallel_operations_submit ==
    /\ script = "performance_optimization"
    /\ pdo.pc = "submit"
    /\ futures' = [n \in 1..Len(pdo.test_keys) |-> Future(pdo.test_keys[n])]
    /\ pdo' = [pdo EXCEPT !.pc = "parallel"]
    /\ UNCHANGED <<outside_parallel, objects, workers>>

\* A thread of the pool that runs nothing takes the first future of the
\* work queue.
worker_take(w) ==
    /\ script = "performance_optimization"
    /\ workers[w] = 0
    /\ Pending # {}
    /\ LET n == CHOOSE m \in Pending : \A k \in Pending : m <= k
       IN /\ futures' = [futures EXCEPT ![n].state = "running"]
          /\ workers' = [workers EXCEPT ![w] = n]
    /\ UNCHANGED <<outside_parallel, objects, pdo>>

\* download_object(key) in a thread of the pool: the size of the object, or
\* 0 if anything was raised; the result goes to the future of the call.
download_object(w, ok) ==
    /\ script = "performance_optimization"
    /\ workers[w] # 0
    /\ LET n == workers[w]
           key == futures[n].key
       IN /\ ok => objects[key] # NoObject
          /\ futures' = [futures EXCEPT ![n].state = "finished",
                                        ![n].raised = ~ok,
                                        ![n].result = IF ok THEN objects[key] ELSE 0]
    /\ workers' = [workers EXCEPT ![w] = 0]
    /\ UNCHANGED <<outside_parallel, objects, pdo>>

\* list(executor.map(...)) with the results taken as the futures finish.
demonstrate_parallel_operations_collect_as_completed ==
    /\ script = "performance_optimization"
    /\ pdo.pc = "parallel"
    /\ \E n \in 1..Len(futures) :
          /\ futures[n].state = "finished"
          /\ LET last == Len(pdo.parallel_sizes) + 1 = Len(futures)
             IN pdo' = [pdo EXCEPT !.parallel_sizes = Append(@, futures[n].result),
                                   !.i = IF last THEN 1 ELSE @,
                                   !.pc = IF last THEN "cleanup" ELSE @]
    /\ UNCHANGED <<outside_parallel, objects, futures, workers>>

\* list(executor.map(...)): the results are taken from the futures in the
\* order of submission, each once its future has finished; after the last
\* one the executor is shut down and the cleanup starts.
demonstrate_parallel_operations_collect ==
    /\ script = "performance_optimization"
    /\ pdo.pc = "parallel"
    /\ LET n == Len(pdo.parallel_sizes) + 1
           last == n = Len(futures)
       IN /\ futures[n].state = "finished"
          /\ pdo' = [pdo EXCEPT !.parallel_sizes = Append(@, futures[n].result),
                                !.i = IF last THEN 1 ELSE @,
                                !.pc = IF last THEN "cleanup" ELSE @]
    /\ UNCHANGED <<outside_parallel, objects, futures, workers>>

\* One turn of the cleanup: delete_object removes the object, or it raises,
\* which is passed over.  After the last turn the function returns.
demonstrate_parallel_operations_cleanup(ok) ==
    /\ script = "performance_optimization"
    /\ pdo.pc = "cleanup"
    /\ LET key == pdo.test_keys[pdo.i]
           last == pdo.i = Len(pdo.test_keys)
       IN /\ objects' = IF ok THEN [objects EXCEPT ![key] = NoObject] ELSE objects
          /\ pdo' = [pdo EXCEPT !.delete_failed = IF ok THEN @ ELSE @ \cup {key},
                                !.i = IF last THEN 0 ELSE @ + 1,
                                !.pc = IF last THEN "done" ELSE @]
    /\ UNCHANGED <<outside_parallel, futures, workers>>

\* No test object in the bucket, the function not called.
ParallelIdle ==
    /\ objects = NoObjects
    /\ futures = <<>>
    /\ workers = NoWorker
    /\ pdo = IdlePdo

ParallelNext ==
    \/ demonstrate_parallel_operations
    \/ \E ok \in BOOLEAN : demonstrate_parallel_operations_create(ok)
    \/ \E ok \in BOOLEAN : demonstrate_parallel_operations_sequential(ok)
    \/ demonstrate_parallel_operations_submit
    \/ \E w \in 1..MaxWorkers : worker_take(w)
    \/ \E w \in 1..MaxWorkers, ok \in BOOLEAN : download_object(w, ok)
    \/ demonstrate_parallel_operations_collect
    \/ \E ok \in BOOLEAN : demonstrate_parallel_operations_cleanup(ok)

(* --------------- 09_monitoring_observability_demo.py ------------------- *)

\* The operations demonstrate_metrics_collection monitors.
OperationNames == {"list_buckets", "head_bucket"}

\* The uses of monitored_operation in a run: the with statements entered,
\* each by a thread of its own unless one is nested in another, numbered in
\* the order they are entered in.
Uses == 1..MaxUses

\* f"{operation_name}_duration" and f"{operation_name}_errors".
MetricName(operation_name, kind) == [op |-> operation_name, kind |-> kind]

\* How the block of a with statement ends: it returns, or raises an
\* Exception, or raises a BaseException that is no Exception.
BlockOutcomes == {"return", "Exception", "KeyboardInterrupt"}

\* A dict with no key.
EmptyDict == [k \in {} |-> 0]

\* d[key] = value
DictSet(d, key, value) ==
    [k \in DOMAIN d \cup {key} |-> IF k = key THEN value ELSE d[k]]

\* del d[key]
DictDel(d, key) == [k \in DOMAIN d \ {key} |-> d[k]]

\* The frame of one use of monitored_operation, with the frame of the
\* method of metrics_collector it is in: the statement it is at, its
\* locals, how its block ended, the exception in flight, and whether a use
\* of the same operation_name ran while this one did.
IdleUse ==
    [pc |-> "idle", operation_name |-> "None", success |-> FALSE,
     outcome |-> "None", exception |-> "None", duration |-> 0,
     metric_name |-> MetricName("None", "None"), value |-> 0, ret |-> "None",
     overlapped |-> FALSE]

Running(u) == uses[u].pc \notin {"idle", "done"}

\* OperationMetrics.__init__, and no use of monitored_operation yet.
MonitoringIdle ==
    /\ metrics = EmptyDict
    /\ start_times = EmptyDict
    /\ uses = [u \in Uses |-> IdleUse]

\* monitored_operation(operation_name, tags) up to its yield:
\* metrics_collector.start_timer(operation_name), success = False.
monitored_operation(u, operation_name) ==
    /\ script = "monitoring_demo"
    /\ uses[u].pc = "idle"
    /\ \A v \in 1..(u - 1) : uses[v].pc # "idle"
    /\ start_times' = DictSet(start_times, operation_name, clock)
    /\ LET same == {v \in Uses \ {u} :
                       Running(v) /\ uses[v].operation_name = operation_name}
       IN uses' = [v \in Uses |->
                     IF v = u
                     THEN [IdleUse EXCEPT !.pc = "body",
                                          !.operation_name = operation_name,
                                          !.overlapped = (same # {})]
                     ELSE IF v \in same
                          THEN [uses[v] EXCEPT !.overlapped = TRUE]
                          ELSE uses[v]]
    /\ UNCHANGED <<outside_monitoring, metrics>>

\* The block of the with statement ends, the except clause re-raising
\* without recording the error.
monitored_operation_block_unrecorded(u, outcome) ==
    /\ script = "monitoring_demo"
    /\ uses[u].pc = "body"
    /\ uses' = [uses EXCEPT ![u] =
                  IF outcome = "return"
                  THEN [@ EXCEPT !.pc = "finally", !.outcome = outcome,
                                 !.success = TRUE]
                  ELSE [@ EXCEPT !.pc = "finally", !.outcome = outcome,
                                 !.exception = outcome]]
    /\ UNCHANGED <<outside_monitoring, metrics, start_times>>

\* The block of the with statement ends: success = True, or the except
\* clause calls record_metric(f"{operation_name}_errors", 1, tags) and
\* re-raises, or an exception the clause does not catch goes to finally.
monitored_operation_block(u, outcome) ==
    /\ script = "monitoring_demo"
    /\ uses[u].pc = "body"
    /\ uses' = [uses EXCEPT ![u] =
                  IF outcome = "return"
                  THEN [@ EXCEPT !.pc = "finally", !.outcome = outcome,
                                 !.success = TRUE]
                  ELSE IF outcome = "Exception"
                  THEN [@ EXCEPT !.pc = "record_metric", !.outcome = outcome,
                                 !.exception = outcome,
                                 !.metric_name = MetricName(uses[u].operation_name, "errors"),
                                 !.value = 1,
                                 !.ret = "finally"]
                  ELSE [@ EXCEPT !.pc = "finally", !.outcome = outcome,
                                 !.exception = outcome]]
    /\ UNCHANGED <<outside_monitoring, metrics, start_times>>

\* record_metric: if metric_name not in self.metrics
record_metric(u) ==
    /\ script = "monitoring_demo"
    /\ uses[u].pc = "record_metric"
    /\ uses' = [uses EXCEPT ![u].pc =
                  IF uses[u].metric_name \in DOMAIN metrics THEN "append" ELSE "create"]
    /\ UNCHANGED <<outside_monitoring, metrics, start_times>>

\* record_metric: self.metrics[metric_name] = []
record_metric_create(u) ==
    /\ script = "monitoring_demo"
    /\ uses[u].pc = "create"
    /\ metrics' = DictSet(metrics, uses[u].metric_name, <<>>)
    /\ uses' = [uses EXCEPT ![u].pc = "append"]
    /\ UNCHANGED <<outside_monitoring, start_times>>

\* record_metric: self.metrics[metric_name].append({...}), and return; the
\* tags of a use name the use.
record_metric_append(u) ==
    /\ script = "monitoring_demo"
    /\ uses[u].pc = "append"
    /\ metrics' = [metrics EXCEPT ![uses[u].metric_name] =
                      Append(@, [value |-> uses[u].value, tags |-> u])]
    /\ uses' = [uses EXCEPT ![u] = [@ EXCEPT !.pc = uses[u].ret,
                                             !.metric_name = IdleUse.metric_name,
                                             !.value = IdleUse.value,
                                             !.ret = IdleUse.ret]]
    /\ UNCHANGED <<outside_monitoring, start_times>>

\* finally: end_timer(operation_name, tags), its test
\* operation_name in self.start_times; return 0 when it fails.
end_timer(u) ==
    /\ script = "monitoring_demo"
    /\ uses[u].pc = "finally"
    /\ uses' = [uses EXCEPT ![u] =
                  IF @.operation_name \in DOMAIN start_times
                  THEN [@ EXCEPT !.pc = "duration"]
                  ELSE [@ EXCEPT !.pc = "done", !.duration = 0]]
    /\ UNCHANGED <<outside_monitoring, metrics, start_times>>

\* end_timer: duration = time.time() - self.start_times[operation_name],
\* a KeyError when the key is gone; then record_metric is called.
end_timer_duration(u) ==
    /\ script = "monitoring_demo"
    /\ uses[u].pc = "duration"
    /\ uses' = [uses EXCEPT ![u] =
                  IF @.operation_name \in DOMAIN start_times
                  THEN LET duration == clock - start_times[@.operation_name]
                       IN [@ EXCEPT !.pc = "record_metric",
                                    !.duration = duration,
                                    !.metric_name = MetricName(uses[u].operation_name, "duration"),
                                    !.value = duration,
                                    !.ret = "del"]
                  ELSE [@ EXCEPT !.pc = "done", !.exception = "KeyError"]]
    /\ UNCHANGED <<outside_monitoring, metrics, start_times>>

\* end_timer: del self.start_times[operation_name], a KeyError when the key
\* is gone; return duration, and monitored_operation ends.
end_timer_del(u) ==
    /\ script = "monitoring_demo"
    /\ uses[u].pc = "del"
    /\ IF uses[u].operation_name \in DOMAIN start_times
       THEN /\ start_times' = DictDel(start_times, uses[u].operation_name)
            /\ uses' = [uses EXCEPT ![u].pc = "done"]
       ELSE /\ start_times' = start_times
            /\ uses' = [uses EXCEPT ![u].pc = "done", ![u].exception = "KeyError"]
    /\ UNCHANGED <<outside_monitoring, metrics>>

\* The steps of a run of 09_monitoring_observability_demo.py.  The wall
\* clock stands still in it: every duration measured is 0.
MonitoringNext ==
    \/ \E u \in Uses, operation_name \in OperationNames :
          monitored_operation(u, operation_name)
    \/ \E u \in Uses, outcome \in BlockOutcomes : monitored_operation_block(u, outcome)
    \/ \E u \in Uses : record_metric(u)
    \/ \E u \in Uses : record_metric_create(u)
    \/ \E u \in Uses : record_metric_append(u)
    \/ \E u \in Uses : end_timer(u)
    \/ \E u \in Uses : end_timer_duration(u)
    \/ \E u \in Uses : end_timer_del(u)

(* --------------------------- specification ----------------------------- *)

\* No function of the etl demo, the backup demo, the sales demo or the
\* retry strategy has been called.
EtlIdle ==
    /\ table = EmptyTable
    /\ clock = 0
    /\ snapshots_info = <<>>
    /\ call = NoLocals
    /\ pc = "idle"
    /\ batch_data = <<>>
    /\ retry = IdleRetry

\* No function of the other iceberg-minio-demo scripts has been called.
MinioIdle ==
    /\ MonitoringIdle
    /\ ConnectionIdle
    /\ EnvironmentIdle
    /\ VersioningIdle
    /\ ParallelIdle

Init ==
    /\ script \in Scripts
    /\ EtlIdle
    /\ SchemaIdle
    /\ MinioIdle

\* target_time values, in microseconds, on and between the clock's ticks.
TargetTimes == {ms * 1000 + us : ms \in 0..MaxClock, us \in {0, 999}}

Next ==
    \/ Tick
    \/ ClockSetBack
    \/ \E id \in 1..MaxId : load_data_to_iceberg(id)
    \/ \E id \in 1..MaxId : create_sample_data_for_backup(id)
    \/ \E id \in 1..MaxId : query_snapshot_by_id(id)
    \/ \E target_time \in TargetTimes : query_snapshot_by_timestamp(target_time)
    \/ \E id1, id2 \in 1..MaxId : compare_snapshots(id1, id2)
    \/ demonstrate_rollback_scenario
    \/ demonstrate_point_in_time_recovery
    \/ create_sales_table_example
    \/ \E id \in 1..MaxId : load_initial_sales_data(id)
    \/ \E id \in 1..MaxId : process_sales_amendment(id)
    \/ query_sales_with_amendments
    \/ \E max_retries \in 0..MaxRetries, random_imported \in BOOLEAN :
          robust_catalog_operation(max_retries, random_imported)
    \/ \E outcome \in Outcomes : robust_catalog_operation_attempt(outcome)

Spec == Init /\ [][Next]_vars

\* A run of 09_monitoring_observability_demo.py.
MonitoringInit ==
    /\ script = "monitoring_demo"
    /\ EtlIdle
    /\ SchemaIdle
    /\ MinioIdle

\* A run of 03_schema_evolution.py, or several, on web_logs.access_logs as
\* 01_create_table.py made it, or with columns added since.
SchemaInit ==
    /\ script = "schema_evolution"
    /\ EtlIdle
    /\ MinioIdle
    /\ evolve = IdleEvolve
    /\ \E p \in PriorColumns :
          schema = BaseSchema \o [i \in 1..Len(p) |->
                                    NestedField(Len(BaseSchema) + i, p[i][1], p[i][2])]

SchemaNext == evolve_schema_add_fields

SchemaSpec == SchemaInit /\ [][SchemaNext]_vars

\* Runs of 01_minio_connection.py, one after the other, against a server
\* that has some of the required buckets.
ConnectionInit ==
    /\ script = "minio_connection"
    /\ EtlIdle
    /\ SchemaIdle
    /\ MonitoringIdle
    /\ EnvironmentIdle
    /\ VersioningIdle
    /\ ParallelIdle
    /\ buckets \in SUBSET Range(required_buckets)
    /\ cib = IdleCib
    /\ conn = IdleConn

ConnectionSpec == ConnectionInit /\ [][ConnectionNext]_vars

\* A call of setup_environment_variables in a process started with some
\* of the variables set, in a directory with or without a .env file.
EnvironmentInit ==
    /\ script = "catalog_setup"
    /\ EtlIdle
    /\ SchemaIdle
    /\ MonitoringIdle
    /\ ConnectionIdle
    /\ VersioningIdle
    /\ ParallelIdle
    /\ environ \in [EnvKeys -> {Unset, "env"}]
    /\ dotenv \in DotenvFiles
    /\ setup = IdleSetup

EnvironmentNext == setup_environment_variables

EnvironmentSpec == EnvironmentInit /\ [][EnvironmentNext]_vars

\* Runs of demonstrate_bucket_versioning, one after the other, against a
\* server without the bucket, or with it and its versioning on or off.
VersioningInit ==
    /\ script = "bucket_lifecycle"
    /\ EtlIdle
    /\ SchemaIdle
    /\ MonitoringIdle
    /\ ConnectionIdle
    /\ EnvironmentIdle
    /\ ParallelIdle
    /\ bucket_versioning \in {"NoBucket", "Unversioned", "Enabled"}
    /\ object_versions = <<>>
    /\ dbv = IdleDbv

VersioningSpec == VersioningInit /\ [][VersioningNext]_vars

\* A call of demonstrate_parallel_operations against a bucket that holds
\* some of the test objects, left by an earlier call, or none.
ParallelInit ==
    /\ script = "performance_optimization"
    /\ EtlIdle
    /\ SchemaIdle
    /\ MonitoringIdle
    /\ ConnectionIdle
    /\ EnvironmentIdle
    /\ VersioningIdle
    /\ objects \in [Keys -> {NoObject, test_data}]
    /\ futures = <<>>
    /\ workers = NoWorker
    /\ pdo = IdlePdo

ParallelSpec == ParallelInit /\ [][ParallelNext]_vars

MonitoringSpec == MonitoringInit /\ [][MonitoringNext]_vars

(* ------------------------------ claims --------------------------------- *)

\* The functions that only read a table: the time-travel queries and the
\* rollback and recovery demonstrations.
ReaderOps ==
    {"query_snapshot_by_id", "query_snapshot_by_timestamp", "compare_snapshots",
     "demonstrate_rollback_scenario", "demonstrate_point_in_time_recovery"}

\* C9: time-travel reads never mutate table state.  Every step taken by
\* query_snapshot_by_id, query_snapshot_by_timestamp, compare_snapshots,
\* demonstrate_rollback_scenario or demonstrate_point_in_time_recovery
\* leaves the table's current snapshot and its snapshot list as they were.
C9_TimeTravelReadsDoNotMutate ==
    [][call'.op \in ReaderOps =>
         /\ table'.current_snapshot_id = table.current_snapshot_id
         /\ table'.snapshots = table.snapshots]_vars

\* C9 witness: the rollback demonstration has run on a table with at least
\* two snapshots and read an older state that differs from the current one,
\* and the current pointer still names the latest snapshot.
C9_Witness ==
    /\ call.op = "demonstrate_rollback_scenario"
    /\ Len(table.snapshots) >= 2
    /\ ~call.prev_data.is_none
    /\ call.prev_data.rows # call.curr_data.rows
    /\ table.current_snapshot_id = table.snapshots[Len(table.snapshots)].snapshot_id

\* The snapshots of t created at or before target_time.
SnapshotsAsOf(t, target_time) ==
    {i \in 1..Len(t.snapshots) : FromTimestamp(t.snapshots[i].timestamp_ms) <= target_time}

\* C11: query_snapshot_by_timestamp resolves, for any snapshot history and
\* any target time, the latest snapshot created at or before the target, and
\* finds no snapshot exactly when none was created at or before the target.
C11_SnapshotAsOfLatest ==
    call.op = "query_snapshot_by_timestamp" =>
        LET asof == SnapshotsAsOf(table, call.target_time)
        IN /\ (call.target_snapshot = NoSnapshot) <=> (asof = {})
           /\ call.target_snapshot # NoSnapshot =>
                 \E i \in asof :
                    /\ table.snapshots[i].snapshot_id = call.target_snapshot
                    /\ \A j \in asof :
                          table.snapshots[j].timestamp_ms <= table.snapshots[i].timestamp_ms

\* The order ids of the rows of the current snapshot of sales.orders.
OrderIds == {Record(r).order_id : r \in SalesRows(CurrentRows(table))}

\* C19: once the amendment is processed the original ORD-001 record is no
\* longer current: the rows with is_current = true that
\* query_sales_with_amendments returns hold exactly one row per order_id,
\* and the one of ORD-001 is the version-2 row.
C19_OneCurrentRowPerOrder ==
    call.op = "query_sales_with_amendments" =>
        /\ \A o \in OrderIds :
              Cardinality({r \in call.current_state : Record(r).order_id = o}) = 1
        /\ \A r \in call.current_state :
              Record(r).order_id = "ORD-001" => Record(r).record_version = 2

\* C20: robust_catalog_operation is bounded and classifies errors.  It calls
\* operation_func at most max_retries times; it is never left running with
\* no attempt left; it returns only when the last call succeeded and
\* otherwise ends by raising; and a call that fails with AccessDenied or
\* InvalidAccessKeyId is the last call made, the error being raised at once.
C20_RetryBoundedAndClassified ==
    LET n == Len(retry.outcomes)
    IN /\ retry.calls = n
       /\ retry.calls <= retry.max_retries
       /\ retry.status = "running" => retry.attempt < retry.max_retries
       /\ retry.status = "returned" <=> (n > 0 /\ retry.outcomes[n] = "ok")
       /\ \A i \in 1..n :
             /\ retry.outcomes[i] # "ok" /\ i = n /\ retry.attempt >= retry.max_retries
                    => retry.status = "raised"
             /\ retry.outcomes[i] \in PermanentCodes
                    => i = n /\ retry.status = "raised" /\ retry.exception = "ClientError"

\* C20 witness: with three attempts allowed, a SlowDown was retried and the
\* AccessDenied that followed was raised at once, one attempt unused.
C20_Witness ==
    /\ retry.max_retries = 3
    /\ retry.outcomes = <<"SlowDown", "AccessDenied">>
    /\ retry.status = "raised"
    /\ retry.calls = 2

\* C22: in robust_catalog_operation an error whose code is neither
\* transient nor permanent is retried once: whatever max_retries is, at
\* most two calls of operation_func end with such an error.
C22_UnknownErrorRetriedOnce ==
    Cardinality({i \in 1..Len(retry.outcomes) : retry.outcomes[i] \in UnknownCodes}) <= 2

\* The places of the fields called name in a schema.
FieldsNamed(fields, name) == {i \in 1..Len(fields) : fields[i].name = name}

\* C23: evolve_schema_add_fields is idempotent.  Every run of it ends
\* without an exception and adds exactly the names of user_country, browser
\* and is_mobile that the schema did not have, so that after it the schema
\* has each of the three names exactly once; the fields the schema had
\* keep their places, IDs and types; and a run after the first adds no field
\* and leaves the schema as it was.
C23_EvolveSchemaIdempotent ==
    [][evolve'.runs = evolve.runs + 1 =>
         /\ evolve'.exception = "None"
         /\ \A f \in Range(fields_to_add) :
               /\ Cardinality(FieldsNamed(schema', f[1])) = 1
               /\ f[1] \in Range(evolve'.fields_added) <=> f[1] \notin FieldNames(schema)
         /\ Len(schema') = Len(schema) + Len(evolve'.fields_added)
         /\ SubSeq(schema', 1, Len(schema)) = schema
         /\ evolve.runs >= 1 => schema' = schema /\ evolve'.fields_added = <<>>]_vars

\* C23 witness: the script has run twice on a table that had a boolean
\* column browser; the first run added user_country and is_mobile after it,
\* the second run added nothing, and browser kept its ID and its type.
C23_Witness ==
    /\ evolve.runs = 2
    /\ evolve.fields_added = <<>>
    /\ Len(schema) = Len(BaseSchema) + Len(fields_to_add)
    /\ schema[Len(BaseSchema) + 1] = NestedField(Len(BaseSchema) + 1, "browser", "boolean")
    /\ FieldNames(schema) = FieldNames(BaseSchema) \cup {"user_country", "browser", "is_mobile"}

\* The calls of head_bucket and create_bucket that did not return, a 404
\* of head_bucket apart.
FailedHeads == {j \in 1..Len(cib.head_calls) : cib.head_calls[j].outcome \notin {"ok", "404"}}

FailedCreates == {k \in 1..Len(cib.create_calls) : cib.create_calls[k].outcome # "ok"}

\* C24: create_iceberg_buckets calls create_bucket only for a bucket that
\* head_bucket reported missing (404) and that the server does not have;
\* when it has returned True the server has both required buckets; a call
\* after one that returned True creates nothing; and once head_bucket has
\* failed otherwise, or create_bucket has failed, it has returned False
\* with no bucket after the failing one processed.
C24_CreateOnlyMissingBuckets ==
    /\ \A k \in 1..Len(cib.create_calls) :
          /\ ~cib.create_calls[k].existed
          /\ \E j \in 1..Len(cib.head_calls) :
                cib.head_calls[j] = [bucket |-> cib.create_calls[k].bucket, outcome |-> "404"]
    /\ cib.status = "returned" /\ cib.result => Range(required_buckets) \subseteq buckets
    /\ cib.after_success => cib.create_calls = <<>>
    /\ FailedHeads # {} \/ FailedCreates # {} =>
          /\ cib.status = "returned" /\ ~cib.result
          /\ Len(cib.head_calls) = cib.i
          /\ FailedHeads \subseteq {cib.i}
          /\ FailedCreates \subseteq {Len(cib.create_calls)}

\* What a test returned in this run of main, "None" when it was not run.
Returned(test) ==
    IF Ran(test) = {} THEN "None" ELSE conn.ran[CHOOSE i \in Ran(test) : TRUE].returned

\* The tests of main, in the order of its steps.
TestOrder ==
    <<"test_basic_connectivity", "create_iceberg_buckets", "test_read_write_permissions">>

\* The tests are run in the order of main's steps; when main has ended
\* without the connectivity test returning True it has returned False and
\* run neither of the other two; and it has returned True exactly when the
\* three tests returned True.
MainOrderAndResult ==
    /\ [i \in 1..Len(conn.ran) |-> conn.ran[i].test] = SubSeq(TestOrder, 1, Len(conn.ran))
    /\ conn.pc = "done" =>
          /\ Returned("test_basic_connectivity") # "True" =>
                /\ conn.result = "False"
                /\ Ran("create_iceberg_buckets") = {}
                /\ Ran("test_read_write_permissions") = {}
          /\ conn.result = "True" <=> \A i \in 1..Len(TestOrder) : Returned(TestOrder[i]) = "True"

\* C25 as stated: main runs its steps in a fixed order; when the
\* connectivity test fails it returns False at once and runs neither
\* create_iceberg_buckets nor test_read_write_permissions; otherwise it runs
\* both, whatever bucket creation does, and returns; and it returns True
\* exactly when the three succeeded.
C25_MainGatesOnConnectivity ==
    /\ MainOrderAndResult
    /\ conn.pc = "done" /\ Returned("test_basic_connectivity") = "True" =>
          /\ Ran("create_iceberg_buckets") # {}
          /\ Ran("test_read_write_permissions") # {}
          /\ conn.result \in {"True", "False"}


\* C26: setup_environment_variables never changes a variable that is set.
\* In every step of it a variable that was set keeps its value,
\* PYICEBERG_HOME and the variables given their fallback value were not set
\* before, and after it the six required variables are set.
C26_SetVariablesKept ==
    [][setup'.status = "returned" =>
         /\ \A k \in EnvKeys : environ[k] # Unset => environ'[k] = environ[k]
         /\ \A k \in EnvKeys : environ'[k] # environ[k] => environ[k] = Unset
         /\ \A var \in Range(required_vars) : environ'[var] # Unset]_vars

\* C26 witness: the function has returned in a process that had
\* MINIO_ENDPOINT set, with a .env file giving the MinIO settings: the
\* endpoint kept its value, the access key came from the file, the catalog's
\* S3 endpoint got its fallback value and PYICEBERG_HOME the directory.
C26_Witness ==
    /\ setup.status = "returned"
    /\ setup.missing_vars # <<>>
    /\ environ["MINIO_ENDPOINT"] = "env"
    /\ environ["MINIO_ACCESS_KEY"] = "dotenv"
    /\ environ["PYICEBERG_CATALOG__MINIO_LOCAL__S3__ENDPOINT"] = "http://localhost:9000"
    /\ environ["PYICEBERG_HOME"] = "os.getcwd()"

\* C27: in demonstrate_bucket_versioning, versioning being enabled, every
\* step keeps the versions the key had, in their order and with their
\* contents; every put_object that returns (the three uploads, the
\* corrupting write, the restore) adds one version with a new id; and when
\* the recovery step has returned, the latest content of the key is the
\* content of the version taken as versions[-2], the second upload, and not
\* the corrupted content that was the latest before it.
C27_VersionsOnlyAdded ==
    [][/\ Len(object_versions') >= Len(object_versions)
       /\ SubSeq(object_versions', 1, Len(object_versions)) = object_versions
       /\ dbv'.puts = dbv.puts + 1 =>
             /\ bucket_versioning = "Enabled"
             /\ Len(object_versions') = Len(object_versions) + 1
             /\ object_versions'[Len(object_versions')].version_id
                    \notin VersionIds(object_versions)
       /\ dbv.pc = "recover" /\ dbv'.result # "None" =>
             /\ dbv.current_content = corrupt_content
             /\ GetObject(object_versions) = corrupt_content
             /\ GetObject(object_versions') = dbv'.versions[Len(dbv'.versions) - 1][3]
             /\ GetObject(object_versions') = Content(Uploads - 1)
             /\ GetObject(object_versions') # corrupt_content]_vars

\* C27 witness: the function has returned the bucket; the key has five
\* versions, the three uploads, the corrupted one and the restored one, and
\* the latest has the content of the second upload.
C27_Witness ==
    /\ dbv.pc = "done"
    /\ dbv.result = "iceberg-versioned-demo"
    /\ dbv.puts = Uploads + 2
    /\ Len(object_versions) = Uploads + 2
    /\ object_versions[Uploads + 1].content = corrupt_content
    /\ object_versions[Uploads + 2].content = Content(Uploads - 1)

\* The future of the download of a key.
FutureOf(key) == futures[CHOOSE n \in 1..Len(futures) : futures[n].key = key]

\* Once the parallel download is over, parallel_sizes has one size for each
\* key, in the order of test_keys: 0 for a key whose download failed and the
\* size of the object for any other; and it equals sequential_sizes if no
\* download failed.
ParallelSizes ==
    pdo.pc \in {"cleanup", "done"} /\ pdo.test_keys # <<>> =>
        /\ Len(pdo.parallel_sizes) = Len(pdo.test_keys)
        /\ \A n \in 1..Len(pdo.test_keys) :
              pdo.parallel_sizes[n] =
                  IF FutureOf(pdo.test_keys[n]).raised THEN 0 ELSE test_data
        /\ (/\ pdo.sequential_failed = {}
            /\ \A n \in 1..Len(futures) : ~futures[n].raised)
              => pdo.parallel_sizes = pdo.sequential_sizes

\* C28: in demonstrate_parallel_operations the download with the thread
\* pool yields, under every interleaving of the workers, one size for each
\* key in the order of test_keys, equal to the sizes of the sequential
\* download when no download fails, a failed download giving 0 for its own
\* key only; and when the function has returned, every test object it
\* created is deleted.
C28_ParallelSizesAndCleanup ==
    /\ ParallelSizes
    /\ pdo.pc = "done" => \A key \in Range(pdo.test_keys) : objects[key] = NoObject

\* C28, amended: as above for the sizes; and when the function has
\* returned, every test object it created is deleted unless its
\* delete_object call failed, in which case the object is left in the
\* bucket.
C28_CleanupUnlessDeleteFails ==
    /\ ParallelSizes
    /\ pdo.pc = "done" =>
          \A key \in Range(pdo.test_keys) :
              objects[key] = IF key \in pdo.delete_failed THEN test_data ELSE NoObject

\* The function has returned: the download of the first key failed in the
\* pool and that of the second did not, and every object has been deleted.
C28_Witness ==
    /\ pdo.pc = "done"
    /\ Len(pdo.test_keys) >= 2
    /\ pdo.parallel_sizes[1] = 0
    /\ pdo.parallel_sizes[2] = test_data
    /\ pdo.delete_failed = {}
    /\ \A key \in Keys : objects[key] = NoObject

\* The samples of metric_name that the use u recorded.
Samples(metric_name, u) ==
    IF metric_name \in DOMAIN metrics
    THEN {i \in 1..Len(metrics[metric_name]) : metrics[metric_name][i].tags = u}
    ELSE {}

DurationSamples(u) == Samples(MetricName(uses[u].operation_name, "duration"), u)

ErrorSamples(u) == Samples(MetricName(uses[u].operation_name, "errors"), u)

\* The use u has recorded one sample of its duration; when its block
\* returned it has recorded no error and no exception leaves it; and when
\* its block raised one of `caught` it has recorded one error of value 1,
\* otherwise none, and the exception of the block leaves it.
MonitoredOnce(u, caught) ==
    /\ Cardinality(DurationSamples(u)) = 1
    /\ uses[u].outcome = "return" =>
          /\ ErrorSamples(u) = {}
          /\ uses[u].exception = "None"
    /\ uses[u].outcome # "return" =>
          /\ uses[u].exception = uses[u].outcome
          /\ IF uses[u].outcome \in caught
             THEN /\ Cardinality(ErrorSamples(u)) = 1
                  /\ \A i \in ErrorSamples(u) :
                        metrics[MetricName(uses[u].operation_name, "errors")][i].value = 1
             ELSE ErrorSamples(u) = {}

\* C21 as stated: every use of monitored_operation that has ended has
\* recorded exactly one duration sample, whether its block returned or
\* raised; when the block raised, one error sample of value 1 and the
\* exception propagates; when it returned, no error sample.
C21_EveryUseMonitoredOnce ==
    \A u \in Uses :
       uses[u].pc = "done" => MonitoredOnce(u, BlockOutcomes \ {"return"})

\* C21, amended: every use of monitored_operation that has ended, and
\* during which no other use of the same operation name was running, has
\* recorded exactly one duration sample, whether its block returned or
\* raised; when the block raised an Exception, one error sample of value 1
\* and the exception propagates; when it returned, or raised an exception
\* that is no Exception (KeyboardInterrupt), no error sample.
C21_UseAloneMonitoredOnce ==
    \A u \in Uses :
       uses[u].pc = "done" /\ ~uses[u].overlapped => MonitoredOnce(u, {"Exception"})

\* C21 witness: two uses of the same operation name, one after the other,
\* have ended; the block of one raised an Exception and the block of the
\* other returned, and the metric holds the duration samples of both.
C21_Witness ==
    \E u, v \in Uses :
       /\ uses[u].pc = "done" /\ uses[v].pc = "done"
       /\ uses[u].operation_name = uses[v].operation_name
       /\ ~uses[u].overlapped /\ ~uses[v].overlapped
       /\ uses[u].outcome = "Exception" /\ uses[v].outcome = "return"
       /\ Cardinality(ErrorSamples(u)) = 1
       /\ Len(metrics[MetricName(uses[u].operation_name, "duration")]) = 2

\* C29: the timers stay consistent when uses of the same operation name
\* overlap.  After every step, each use that has ended and overlapped
\* another use of its name has recorded its own duration sample, and
\* start_times is empty once no use is running; and a step of end_timer
\* that finds no running timer of its name returns 0 and records nothing.
C29_OverlappingTimersConsistent ==
    [][/\ (\A u \in Uses :
              uses[u].pc = "done" /\ uses[u].overlapped
                  => Cardinality(DurationSamples(u)) = 1)'
       /\ ((\A u \in Uses : ~Running(u)) => DOMAIN start_times = {})'
       /\ \A u \in Uses :
             /\ uses[u].pc = "finally" /\ uses'[u].pc # "finally"
             /\ uses[u].operation_name \notin DOMAIN start_times
             => /\ uses'[u].pc = "done"
                /\ uses'[u].duration = 0
                /\ uses'[u].exception = uses[u].exception
                /\ metrics' = metrics]_vars

====
